---- MODULE Spec2Model ----
(***************************************************************************)
(* Model of qemuctl (src/src/main.rs): a menu-driven manager that keeps VM  *)
(* definitions in a confy document and shells out to qemu-img,              *)
(* qemu-system-x86_64, pkill, pgrep and kill.                               *)
(*                                                                         *)
(* Text is modelled as a sequence of atoms: a literal piece of a format     *)
(* string is one atom, a user-typed name is one atom per character.         *)
(***************************************************************************)
EXTENDS Integers, Sequences, FiniteSets, TLC

VARIABLES
    config,     \* main's `config.vms`: the in-memory map name -> VMInfo
    persisted,  \* the confy document on disk: a set of table rows
    procs,      \* live hypervisor processes: pid -> command line
    files,      \* paths that exist in the filesystem (normalised)
    home,       \* what home::home_dir() yields; <<>> when it yields None
    broken,     \* the external primitives that fail on this machine
    running,    \* TRUE while main's loop is running
    nops,       \* number of menu choices taken so far
    out,        \* what the last menu choice did (its observable effects)
    other,      \* a second session of the tool on the same document: its own
                \* `config.vms` and whether its loop is running
    cur         \* which session `config` and `running` belong to: "A" or "B"

vars == <<config, persisted, procs, files, home, broken, running, nops, out,
          other, cur>>

-----------------------------------------------------------------------------
(* Bounds of the model *)

MaxOps == 2

-----------------------------------------------------------------------------
(* Text helpers *)

S(a) == <<a>>

EmptyStr == <<>>

IsPrefix(p, s) == Len(p) <= Len(s) /\ SubSeq(s, 1, Len(p)) = p

\* str::contains: pat occurs in s as a contiguous run.
Contains(s, pat) ==
    \E i \in 0..(Len(s) - Len(pat)) : SubSeq(s, i + 1, i + Len(pat)) = pat

LowerTable == [x \in {"gui", "headless", "HEADLESS", ""} |->
                 IF x = "HEADLESS" THEN "headless" ELSE x]

\* str::to_lowercase on the mode answers the model draws.
to_lowercase(x) == LowerTable[x]

-----------------------------------------------------------------------------
(* Inputs typed at the prompts (already trimmed) *)

NameInputs == {EmptyStr, <<"a">>, <<"a", "b">>}

ModeInputs == {"gui", "headless", "HEADLESS"}

CreateInputs ==
    { [memory |-> S("2G"), disk_size |-> S("5G"), cpu_threads |-> S("2"),
       iso |-> EmptyStr],
      [memory |-> EmptyStr, disk_size |-> EmptyStr, cpu_threads |-> EmptyStr,
       iso |-> <<"~", "/x.iso">>] }

NoInputs == [memory |-> EmptyStr, disk_size |-> EmptyStr,
             cpu_threads |-> EmptyStr, iso |-> EmptyStr]

HomeDirs == {S("/home/u"), EmptyStr}

\* The external primitives that can fail, and the combinations drawn.
Faults == {"mkdir", "img", "save", "spawn", "pkill", "stop_pgrep", "kill",
           "delete_pgrep", "rmfile", "rmdir", "load"}

BrokenSets ==
    {{}} \cup {{x} : x \in Faults}
         \cup {{"pkill", "stop_pgrep"}, {"pkill", "kill"}, {"rmfile", "rmdir"}}

-----------------------------------------------------------------------------
(* Path Resolver *)

\* expand_path: a leading "~" is replaced by the home directory when known.
expand_path(path) ==
    IF Len(path) > 0 /\ path[1] = "~"
    THEN IF home # EmptyStr THEN home \o Tail(path) ELSE path
    ELSE path

\* The path get_vm_folder returns.
vm_folder == expand_path(<<"~", "/", "vms">>)

vm_dir_of(name) == expand_path(vm_folder \o S("/") \o name)

disk_path_of(name) ==
    expand_path(vm_dir_of(name) \o S("/") \o name \o S(".qcow2"))

\* The filesystem's view of a path: repeated and trailing separators vanish.
RECURSIVE Norm(_)
Norm(p) ==
    IF p = <<>> THEN <<>>
    ELSE LET r == Norm(Tail(p)) IN
         IF Head(p) = "/" /\ (r = <<>> \/ Head(r) = "/") THEN r
         ELSE <<Head(p)>> \o r

Exists(p) == Norm(p) \in files

\* p is d or lies beneath d.
Under(d, p) == Norm(p) = Norm(d) \/ IsPrefix(Norm(d) \o S("/"), Norm(p))

\* fs::create_dir_all: the directory and every missing ancestor.
create_dir_all(fs, p) ==
    LET n == Norm(p) IN
    fs \cup {n} \cup {SubSeq(n, 1, i) : i \in {j \in 1..(Len(n) - 1) : n[j + 1] = "/"}}

\* fs::remove_dir_all: the directory and everything beneath it.
remove_dir_all(fs, p) == {q \in fs : ~Under(p, q)}

\* fs::remove_file.
remove_file(fs, p) == fs \ {Norm(p)}

-----------------------------------------------------------------------------
(* Record Store *)

EmptyStore == [k \in {} |-> 0]

Defined(cfg, name) == name \in DOMAIN cfg

\* Variant: an insert that keeps an existing entry (entry().or_insert()).
InsertIfAbsent(cfg, name, vm) ==
    [k \in (DOMAIN cfg) \cup {name} |-> IF k \in DOMAIN cfg THEN cfg[k] ELSE vm]

\* HashMap::insert: overwrites the entry of the same key.
Insert(cfg, name, vm) ==
    [k \in (DOMAIN cfg) \cup {name} |-> IF k = name THEN vm ELSE cfg[k]]

\* Variant: a removal by name prefix (retain(|k, _| !k.starts_with(name))).
RemoveByPrefix(cfg, name) ==
    [k \in {j \in DOMAIN cfg : ~IsPrefix(name, j)} |-> cfg[k]]

\* HashMap::remove.
Remove(cfg, name) == [k \in (DOMAIN cfg) \ {name} |-> cfg[k]]

\* confy::store: one table row per entry of `vms`.
Serialize(cfg) ==
    { [key |-> k, name |-> cfg[k].name, memory |-> cfg[k].memory,
       cpu |-> cfg[k].cpu, threads |-> cfg[k].threads, disk |-> cfg[k].disk,
       iso |-> cfg[k].iso] : k \in DOMAIN cfg }

RowOf(doc, k) == CHOOSE r \in doc : r.key = k

\* Variant: the threads field is not read back (#[serde(skip_deserializing)]).
DeserializeSkipsThreads(doc) ==
    [k \in {r.key : r \in doc} |->
        [name |-> RowOf(doc, k).name, memory |-> RowOf(doc, k).memory,
         cpu |-> RowOf(doc, k).cpu, threads |-> EmptyStr,
         disk |-> RowOf(doc, k).disk, iso |-> RowOf(doc, k).iso]]

\* confy::load: the map rebuilt from the rows.
Deserialize(doc) ==
    [k \in {r.key : r \in doc} |->
        [name |-> RowOf(doc, k).name, memory |-> RowOf(doc, k).memory,
         cpu |-> RowOf(doc, k).cpu, threads |-> RowOf(doc, k).threads,
         disk |-> RowOf(doc, k).disk, iso |-> RowOf(doc, k).iso]]

\* load_config: the stored document, or the default (empty) store.
load_config(doc, loadOk) == IF loadOk THEN Deserialize(doc) ELSE EmptyStore

\* Variant: the ISO field is left out of the document (#[serde(skip)]).
save_config_skips_iso(cfg) == {[r EXCEPT !.iso = EmptyStr] : r \in Serialize(cfg)}

\* save_config: the document written for a store.
save_config(cfg) == Serialize(cfg)

-----------------------------------------------------------------------------
(* Process table *)

QemuName == "qemu-system-x86_64 -name "

\* The pattern stop_vm and delete_vm hand to pkill -f / pgrep -f.
pattern_of(name) == S(QemuName) \o name

display_flag_of(headless) == IF headless THEN S(" -display none") ELSE EmptyStr

\* The hypervisor command line start_vm_common builds.
start_cmd(vm, headless) ==
    S(QemuName) \o vm.name \o S(" -m ") \o vm.memory \o S(" -cpu ") \o vm.cpu
    \o S(" -smp ") \o vm.threads \o S(" -enable-kvm -drive file=") \o vm.disk
    \o S(",format=qcow2") \o display_flag_of(headless)

\* The first-boot command line create_vm builds.
create_cmd(vm, mode) ==
    S(QemuName) \o vm.name \o S(" -m ") \o vm.memory \o S(" -cpu ") \o vm.cpu
    \o S(" -smp ") \o vm.threads \o S(" -enable-kvm -drive file=") \o vm.disk
    \o S(",format=qcow2") \o S(" -cdrom ") \o vm.iso \o S(" -boot order=d")
    \o display_flag_of(mode = "headless")

\* Variant: only the processes launched for exactly the name in the pattern.
MatchingExactName(P, pattern) == {p \in DOMAIN P : P[p].vm = Tail(pattern)}

\* pkill -f / pgrep -f: the pids whose command line matches the pattern.
Matching(P, pattern) == {p \in DOMAIN P : Contains(P[p].cmd, pattern)}

\* At most one launch per menu choice, on top of what was left running.
MaxPids == MaxOps + Cardinality(NameInputs)

FreePid(P) == CHOOSE p \in 1..MaxPids : p \notin DOMAIN P /\
                 \A q \in 1..MaxPids : q \notin DOMAIN P => p <= q

\* sh -c "setsid qemu-system-x86_64 ... &": a new detached process.  `vm` is
\* the name the process was launched for, `cmd` its command line.
Spawn(P, vm, cmd) ==
    [p \in (DOMAIN P) \cup {FreePid(P)} |->
        IF p \in DOMAIN P THEN P[p] ELSE [vm |-> vm, cmd |-> cmd]]

Kill(P, pids) == [p \in (DOMAIN P) \ pids |-> P[p]]

NoProcs == [p \in {} |-> 0]

-----------------------------------------------------------------------------
(* What a menu choice did *)

Report(op, name, result, events, launched, signalled, args, mode, nested, hit) ==
    [op |-> op, name |-> name, result |-> result, events |-> events,
     launched |-> launched, signalled |-> signalled, args |-> args,
     mode |-> mode, nested |-> nested, hit |-> hit, old |-> {}]

Quiet(op, name, result, events) ==
    Report(op, name, result, events, <<>>, {}, NoInputs, "", EmptyStr, {})

-----------------------------------------------------------------------------
(* Lifecycle Coordinator *)

\* Variant: memory and threads answers stored in each other's field.
VMOfSwapped(name, inp) ==
    [name    |-> name,
     memory  |-> IF inp.cpu_threads = EmptyStr THEN S("1") ELSE inp.cpu_threads,
     cpu     |-> S("host"),
     threads |-> IF inp.memory = EmptyStr THEN S("4G") ELSE inp.memory,
     disk    |-> disk_path_of(name),
     iso     |-> expand_path(inp.iso)]

\* The VMInfo create_vm builds from the answers to its prompts.
VMOf(name, inp) ==
    [name    |-> name,
     memory  |-> IF inp.memory = EmptyStr THEN S("4G") ELSE inp.memory,
     cpu     |-> S("host"),
     threads |-> IF inp.cpu_threads = EmptyStr THEN S("1") ELSE inp.cpu_threads,
     disk    |-> disk_path_of(name),
     iso     |-> expand_path(inp.iso)]

\* Variant: create_vm launches whatever the ISO answer was.
LaunchesAlways(vm) == TRUE

\* Whether create_vm goes on to launch the new VM.
LaunchesAfterCreate(vm) == vm.iso # EmptyStr

\* Variant: the launch is attempted before the record is saved.
CreateStepsLaunchFirst(launch, spawned) ==
    <<"insert">>
      \o (IF ~launch THEN <<>> ELSE IF spawned THEN <<"spawn">> ELSE <<"spawn_err">>)
      \o <<"save">>

\* The order in which create_vm inserts, saves and launches.
CreateSteps(launch, spawned) ==
    <<"insert", "save">>
      \o (IF ~launch THEN <<>> ELSE IF spawned THEN <<"spawn">> ELSE <<"spawn_err">>)

\* Variant: a failed qemu-img run aborts create_vm as well.
FatalInCreateWithImg(f) == f \cap {"mkdir", "save", "img"}

\* The failures that abort create_vm: the .expect() calls.  The result of the
\* qemu-img run is dropped with `let _`.
FatalInCreate(f) == f \cap {"mkdir", "save"}

\* Menu choice 1.
create_vm(name, inp, modeIn) ==
    LET f       == broken
        vm      == VMOf(name, inp)
        fs1     == create_dir_all(create_dir_all(files, vm_folder), vm_dir_of(name))
        imgOk   == "img" \notin f
        fs2     == IF imgOk THEN fs1 \cup {Norm(vm.disk)} ELSE fs1
        imgEv   == IF imgOk THEN "img" ELSE "img_err"
        cfg1    == Insert(config, name, vm)
        old     == IF Defined(config, name) THEN {config[name]} ELSE {}
        saved   == FatalInCreate(f) = {}
        launch  == saved /\ LaunchesAfterCreate(vm)
        mode    == IF launch THEN to_lowercase(modeIn) ELSE ""
        cmd     == create_cmd(vm, mode)
        spawned == launch /\ "spawn" \notin f
        hit     == IF "mkdir" \in f THEN {"mkdir"}
                   ELSE (f \cap {"img", "save"})
                          \cup (IF launch THEN f \cap {"spawn"} ELSE {})
    IN
    /\ running /\ nops < MaxOps
    /\ launch \/ modeIn = "gui"
    /\ nops' = nops + 1
    /\ UNCHANGED <<other, cur>>
    /\ UNCHANGED <<home, broken>>
    /\ IF "mkdir" \in f THEN
          /\ running' = FALSE
          /\ UNCHANGED <<config, persisted, procs, files>>
          /\ out' = Report("create", name, "panic", <<"mkdir_err">>, <<>>, {},
                           NoInputs, "", EmptyStr, hit)
       ELSE IF FatalInCreate(f) # {} THEN
          /\ running' = FALSE
          /\ files' = fs2
          /\ config' = cfg1
          /\ UNCHANGED <<persisted, procs>>
          /\ out' = Report("create", name, "panic",
                           <<"mkdir", imgEv, "insert", "save_err">>,
                           <<>>, {}, inp, "", EmptyStr, hit)
       ELSE
          /\ running' = TRUE
          /\ files' = fs2
          /\ config' = cfg1
          /\ persisted' = save_config(cfg1)
          /\ procs' = IF spawned THEN Spawn(procs, vm.name, cmd) ELSE procs
          /\ out' = [Report("create", name, "ok",
                            <<"mkdir", imgEv>> \o CreateSteps(launch, spawned),
                            IF launch THEN <<cmd>> ELSE <<>>, {}, inp, mode,
                            EmptyStr, hit) EXCEPT !.old = old]

\* Menu choice 4: list_defined_vms prints and changes nothing.
list_defined_vms ==
    /\ running /\ nops < MaxOps
    /\ nops' = nops + 1
    /\ UNCHANGED <<other, cur>>
    /\ out' = Quiet("list", EmptyStr, "ok", <<"list">>)
    /\ UNCHANGED <<config, persisted, procs, files, home, broken, running>>

\* Variant: nothing is launched when a process for the VM is already alive.
start_vm_common_if_not_live(vm, headless, f) ==
    LET cmd == start_cmd(vm, headless)
        spawned == "spawn" \notin f /\ Matching(procs, pattern_of(vm.name)) = {}
    IN
    /\ procs' = IF spawned THEN Spawn(procs, vm.name, cmd) ELSE procs
    /\ out' = Report("start", vm.name, "ok",
                     <<"list">> \o (IF spawned THEN <<"spawn">> ELSE <<"spawn_err">>),
                     <<cmd>>, {}, NoInputs,
                     IF headless THEN "headless" ELSE "gui", EmptyStr,
                     f \cap {"spawn"})

\* start_vm_common: one launch attempt.
start_vm_common(vm, headless, f) ==
    LET cmd == start_cmd(vm, headless)
        spawned == "spawn" \notin f
    IN
    /\ procs' = IF spawned THEN Spawn(procs, vm.name, cmd) ELSE procs
    /\ out' = Report("start", vm.name, "ok",
                     <<"list">> \o (IF spawned THEN <<"spawn">> ELSE <<"spawn_err">>),
                     <<cmd>>, {}, NoInputs,
                     IF headless THEN "headless" ELSE "gui", EmptyStr,
                     f \cap {"spawn"})

\* Variant: an unknown name is launched with default settings.
StartNotFoundLaunches(name) ==
    LET cmd == start_cmd(VMOf(name, NoInputs), FALSE) IN
    /\ procs' = Spawn(procs, name, cmd)
    /\ out' = Report("start", name, "NotFound", <<"list", "not_found", "spawn">>,
                     <<cmd>>, {}, NoInputs, "gui", EmptyStr, {})

\* start_vm when no record has the name typed.
StartNotFound(name) ==
    /\ UNCHANGED procs
    /\ out' = Quiet("start", name, "NotFound", <<"list", "not_found">>)

\* Menu choice 2.
start_vm(name, modeIn) ==
    /\ running /\ nops < MaxOps
    /\ nops' = nops + 1
    /\ UNCHANGED <<other, cur>>
    /\ UNCHANGED <<config, persisted, files, home, broken, running>>
    /\ IF Defined(config, name) THEN
          start_vm_common(config[name], to_lowercase(modeIn) = "headless", broken)
       ELSE
          /\ modeIn = "gui"
          /\ StartNotFound(name)

\* Variant: the fallback is also taken when pkill ran and matched nothing
\* (the exit status is tested instead of the spawn result).
StopEffectFallbackOnNoMatch(cfg, name, P, f) ==
    LET hits == Matching(P, pattern_of(name))
        sig  == {[pid |-> p, vm |-> P[p].vm] : p \in hits}
    IN
    IF ~Defined(cfg, name) THEN
        [procs |-> P, events |-> <<"list", "not_found">>, signalled |-> {},
         result |-> "NotFound", hit |-> {}]
    ELSE IF "pkill" \notin f /\ hits # {} THEN
        [procs |-> Kill(P, hits), events |-> <<"list", "pkill", "stopped">>,
         signalled |-> sig, result |-> "ok", hit |-> {}]
    ELSE IF "pkill" \notin f THEN
        [procs |-> P, events |-> <<"list", "pkill", "pgrep">>,
         signalled |-> {}, result |-> "fallback", hit |-> {}]
    ELSE IF "stop_pgrep" \in f THEN
        [procs |-> P, events |-> <<"list", "pkill_err", "pgrep_err">>,
         signalled |-> {}, result |-> "failed", hit |-> {"pkill", "stop_pgrep"}]
    ELSE IF "kill" \in f /\ hits # {} THEN
        [procs |-> P, events |-> <<"list", "pkill_err", "pgrep", "kill_err">>,
         signalled |-> {}, result |-> "fallback", hit |-> {"pkill", "kill"}]
    ELSE
        [procs |-> Kill(P, hits), events |-> <<"list", "pkill_err", "pgrep", "kill">>,
         signalled |-> sig, result |-> "fallback", hit |-> {"pkill"}]

\* What stop_vm does to the process table when `name` is typed at its prompt:
\* the surviving processes, the events, the signalled processes, the verdict,
\* and the failures it ran into.
StopEffect(cfg, name, P, f) ==
    LET hits == Matching(P, pattern_of(name))
        sig  == {[pid |-> p, vm |-> P[p].vm] : p \in hits}
    IN
    IF ~Defined(cfg, name) THEN
        [procs |-> P, events |-> <<"list", "not_found">>, signalled |-> {},
         result |-> "NotFound", hit |-> {}]
    ELSE IF "pkill" \notin f THEN
        [procs |-> Kill(P, hits), events |-> <<"list", "pkill", "stopped">>,
         signalled |-> sig, result |-> "ok", hit |-> {}]
    ELSE IF "stop_pgrep" \in f THEN
        [procs |-> P, events |-> <<"list", "pkill_err", "pgrep_err">>,
         signalled |-> {}, result |-> "failed", hit |-> {"pkill", "stop_pgrep"}]
    ELSE IF "kill" \in f /\ hits # {} THEN
        [procs |-> P, events |-> <<"list", "pkill_err", "pgrep", "kill_err">>,
         signalled |-> {}, result |-> "fallback", hit |-> {"pkill", "kill"}]
    ELSE
        [procs |-> Kill(P, hits), events |-> <<"list", "pkill_err", "pgrep", "kill">>,
         signalled |-> sig, result |-> "fallback", hit |-> {"pkill"}]

\* Variant: stopping a VM also drops its record and rewrites the document.
stop_vm_forgets(name) ==
    LET st == StopEffect(config, name, procs, broken) IN
    /\ running /\ nops < MaxOps
    /\ nops' = nops + 1
    /\ UNCHANGED <<other, cur>>
    /\ config' = Remove(config, name)
    /\ persisted' = save_config(config')
    /\ UNCHANGED <<files, home, broken, running>>
    /\ procs' = st.procs
    /\ out' = Report("stop", name, st.result, st.events, <<>>, st.signalled,
                     NoInputs, "", EmptyStr, st.hit)

\* Menu choice 3.
stop_vm(name) ==
    LET st == StopEffect(config, name, procs, broken) IN
    /\ running /\ nops < MaxOps
    /\ nops' = nops + 1
    /\ UNCHANGED <<other, cur>>
    /\ UNCHANGED <<config, persisted, files, home, broken, running>>
    /\ procs' = st.procs
    /\ out' = Report("stop", name, st.result, st.events, <<>>, st.signalled,
                     NoInputs, "", EmptyStr, st.hit)

\* Variant: the document is rewritten even though nothing was removed.
DeleteNotFoundSaves(name) ==
    /\ persisted' = save_config(config)
    /\ UNCHANGED <<config, procs, files, running>>
    /\ out' = Quiet("delete", name, "NotFound", <<"list", "not_found", "save">>)

\* delete_vm when no record has the name typed.
DeleteNotFound(name) ==
    /\ UNCHANGED <<config, persisted, procs, files, running>>
    /\ out' = Quiet("delete", name, "NotFound", <<"list", "not_found">>)

\* Variant: a folder that cannot be removed aborts delete_vm before the save.
FatalInDeleteWithRmdir(f) == f \cap {"mkdir", "save", "rmdir"}

\* The failures that abort delete_vm: the .expect() calls.  Errors of
\* remove_file and remove_dir_all are printed and execution goes on.
FatalInDelete(f) == f \cap {"mkdir", "save"}

\* Menu choice 5.  `stopName` is what is typed at the prompt of the stop_vm
\* call nested in delete_vm.
delete_vm(name, stopName) ==
    LET f       == broken
        vm      == config[name]
        cfg1    == Remove(config, name)
        probed  == "delete_pgrep" \notin f
        st      == IF probed THEN StopEffect(cfg1, stopName, procs, f)
                   ELSE [procs |-> procs, events |-> <<>>, signalled |-> {},
                         result |-> "none", hit |-> {"delete_pgrep"}]
        stopEv  == IF probed THEN <<"pgrep", "stop_vm">> \o st.events
                   ELSE <<"pgrep_err">>
        disk    == expand_path(vm.disk)
        hasDisk == Exists(disk)
        rmFile  == hasDisk /\ "rmfile" \notin f
        fs1     == IF rmFile THEN remove_file(files, disk) ELSE files
        fileEv  == IF ~hasDisk THEN <<>>
                   ELSE IF rmFile THEN <<"rmfile">> ELSE <<"rmfile_err">>
        fs2     == create_dir_all(fs1, vm_folder)
        dir     == vm_dir_of(name)
        hasDir  == Norm(dir) \in fs2
        rmDir   == hasDir /\ "rmdir" \notin f
        fs3     == IF rmDir THEN remove_dir_all(fs2, dir) ELSE fs2
        dirEv   == IF ~hasDir THEN <<>>
                   ELSE IF rmDir THEN <<"rmdir">> ELSE <<"rmdir_err">>
        hit1    == st.hit \cup (IF hasDisk THEN f \cap {"rmfile"} ELSE {})
        hit     == IF "mkdir" \in f THEN hit1 \cup {"mkdir"}
                   ELSE hit1 \cup (IF hasDir THEN f \cap {"rmdir"} ELSE {})
                             \cup (f \cap {"save"})
        nested  == IF probed THEN stopName ELSE EmptyStr
    IN
    /\ running /\ nops < MaxOps
    /\ nops' = nops + 1
    /\ UNCHANGED <<other, cur>>
    /\ UNCHANGED <<home, broken>>
    /\ IF ~Defined(config, name) THEN
          /\ stopName = EmptyStr
          /\ DeleteNotFound(name)
       ELSE
          /\ stopName = nested
          /\ config' = cfg1
          /\ procs' = st.procs
          /\ IF "mkdir" \in f THEN
                /\ running' = FALSE
                /\ files' = fs1
                /\ UNCHANGED persisted
                /\ out' = [Report("delete", name, "panic",
                                  <<"list", "remove">> \o stopEv \o fileEv
                                    \o <<"mkdir_err">>,
                                  <<>>, st.signalled, NoInputs, "", nested, hit)
                           EXCEPT !.old = {vm}]
             ELSE IF FatalInDelete(f) # {} THEN
                /\ running' = FALSE
                /\ files' = fs3
                /\ UNCHANGED persisted
                /\ out' = [Report("delete", name, "panic",
                                  <<"list", "remove">> \o stopEv \o fileEv
                                    \o <<"mkdir">> \o dirEv \o <<"save_err">>,
                                  <<>>, st.signalled, NoInputs, "", nested, hit)
                           EXCEPT !.old = {vm}]
             ELSE
                /\ running' = TRUE
                /\ files' = fs3
                /\ persisted' = save_config(cfg1)
                /\ out' = [Report("delete", name, "ok",
                                  <<"list", "remove">> \o stopEv \o fileEv
                                    \o <<"mkdir">> \o dirEv \o <<"save">>,
                                  <<>>, st.signalled, NoInputs, "", nested, hit)
                           EXCEPT !.old = {vm}]

\* Menu choice 6: main's loop ends.
exit_loop ==
    /\ running /\ nops < MaxOps
    /\ nops' = nops + 1
    /\ UNCHANGED <<other, cur>>
    /\ running' = FALSE
    /\ out' = Quiet("exit", EmptyStr, "ok", <<>>)
    /\ UNCHANGED <<config, persisted, procs, files, home, broken>>

\* The tool is started again: main loads the document once.
main ==
    /\ ~running /\ nops < MaxOps
    /\ nops' = nops + 1
    /\ UNCHANGED <<other, cur>>
    /\ running' = TRUE
    /\ config' = load_config(persisted, "load" \notin broken)
    /\ out' = Report("main", EmptyStr, "ok", <<"load">>, <<>>, {}, NoInputs, "",
                     EmptyStr, broken \cap {"load"})
    /\ UNCHANGED <<persisted, procs, files, home, broken>>

-----------------------------------------------------------------------------
(* Start of a session: what earlier sessions may have left behind *)

PriorNameSets == {{}, {<<"a">>, <<"a", "b">>}}

\* The pid of a process left running for `n`: names in order of length.
PriorPid(live, n) == Cardinality({m \in live : Len(m) <= Len(n)})

PriorProcs(live) ==
    [p \in 1..Cardinality(live) |->
        LET n == CHOOSE m \in live : PriorPid(live, m) = p IN
        [vm |-> n, cmd |-> start_cmd(VMOf(n, NoInputs), FALSE)]]

RECURSIVE PriorFiles(_)
PriorFiles(names) ==
    IF names = {} THEN {}
    ELSE LET n == CHOOSE m \in names : TRUE IN
         create_dir_all(PriorFiles(names \ {n}), vm_dir_of(n))
           \cup {Norm(disk_path_of(n))}

Init ==
    /\ home \in HomeDirs
    /\ broken \in BrokenSets
    /\ \E names \in PriorNameSets :
          /\ persisted = save_config([n \in names |-> VMOf(n, NoInputs)])
          /\ files = PriorFiles(names)
          /\ \E live \in {{}, names} : procs = PriorProcs(live)
    /\ config = load_config(persisted, "load" \notin broken)
    /\ running = TRUE
    /\ nops = 0
    /\ out = Quiet("main", EmptyStr, "ok", <<"load">>)
    /\ other = [config |-> EmptyStore, running |-> FALSE]
    /\ cur = "A"

Next ==
    \/ \E name \in NameInputs, inp \in CreateInputs, modeIn \in ModeInputs :
          create_vm(name, inp, modeIn)
    \/ \E name \in NameInputs, modeIn \in ModeInputs : start_vm(name, modeIn)
    \/ \E name \in NameInputs : stop_vm(name)
    \/ list_defined_vms
    \/ \E name \in NameInputs, stopName \in NameInputs : delete_vm(name, stopName)
    \/ exit_loop
    \/ main

Spec == Init /\ [][Next]_vars

-----------------------------------------------------------------------------
(* Two sessions of the tool on one document *)

\* Variant: a session reads the document again each time it gets to run.
switch_session_reloads ==
    /\ cur' = IF cur = "A" THEN "B" ELSE "A"
    /\ config' = load_config(persisted, TRUE)
    /\ running' = other.running
    /\ other' = [config |-> config, running |-> running]
    /\ UNCHANGED <<persisted, procs, files, home, broken, nops, out>>

\* The terminal of the other session gets the next menu choice.  Each process
\* keeps the map it loaded; the document, the filesystem and the process table
\* are the machine's.
switch_session ==
    /\ cur' = IF cur = "A" THEN "B" ELSE "A"
    /\ config' = other.config
    /\ running' = other.running
    /\ other' = [config |-> config, running |-> running]
    /\ UNCHANGED <<persisted, procs, files, home, broken, nops, out>>

\* Both sessions have been started on the same document and sit at the menu.
InitConc ==
    /\ home = S("/home/u")
    /\ broken = {}
    /\ \E names \in PriorNameSets :
          /\ persisted = save_config([n \in names |-> VMOf(n, NoInputs)])
          /\ files = PriorFiles(names)
          /\ \E live \in {{}, names} : procs = PriorProcs(live)
    /\ config = load_config(persisted, TRUE)
    /\ running = TRUE
    /\ other = [config |-> load_config(persisted, TRUE), running |-> TRUE]
    /\ cur = "A"
    /\ nops = 0
    /\ out = Quiet("main", EmptyStr, "ok", <<"load">>)

NextConc == Next \/ switch_session

SpecConc == InitConc /\ [][NextConc]_vars

-----------------------------------------------------------------------------
(* Properties *)

\* The step is one menu choice `op`.
Step(op) == nops' = nops + 1 /\ out'.op = op

RowsFor(doc, k) == {r \in doc : r.key = k}

Count(s, x) == Cardinality({i \in 1..Len(s) : s[i] = x})

\* Every x in s comes before every y in s.
Precedes(s, x, y) ==
    \A i, j \in 1..Len(s) : (s[i] = x /\ s[j] = y) => i < j

Supplied(answer, default) == IF answer = EmptyStr THEN default ELSE answer

TerminationWorks ==
    broken \cap {"delete_pgrep", "pkill", "stop_pgrep", "kill"} = {}

\* C1: once Delete(name) of a defined VM has completed, with the termination
\* primitives working, no live process launched for `name` remains.
C1_DeleteLeavesNoLiveProcess ==
    (out.op = "delete" /\ out.result = "ok" /\ TerminationWorks)
        => \A p \in DOMAIN procs : procs[p].vm # out.name

\* C2: Delete of a name that is not in the store reports NotFound and changes
\* nothing: the map, the document, the files and the processes stay as they
\* were, nothing is saved and no external command runs.
C2_DeleteNotFoundUnchanged ==
    [][ (Step("delete") /\ ~Defined(config, out'.name)) =>
          /\ out'.result = "NotFound"
          /\ config' = config
          /\ persisted' = persisted
          /\ files' = files
          /\ procs' = procs
          /\ running' = running
          /\ out'.events = <<"list", "not_found">>
          /\ out'.signalled = {}
          /\ out'.launched = <<>> ]_vars

C2_Witness ==
    /\ out.op = "delete" /\ out.result = "NotFound"
    /\ config # EmptyStore /\ persisted # {} /\ procs # NoProcs

\* C3: a completed Delete(name) of a record made by Create removes the record
\* from the map and from the document, so that get(name) finds nothing, removes
\* no other record and, when the removal primitives work, removes the disk file
\* and the VM subdirectory.
C3_DeleteRemovesRecordAndFiles ==
    [][ (Step("delete") /\ Defined(config, out'.name) /\ out'.result = "ok") =>
          /\ ~Defined(config', out'.name)
          /\ RowsFor(persisted', out'.name) = {}
          /\ DOMAIN config' = (DOMAIN config) \ {out'.name}
          /\ \A k \in DOMAIN config' : config'[k] = config[k]
          /\ Deserialize(persisted') = config'
          /\ (broken \cap {"rmfile", "rmdir"} = {} =>
                /\ Norm(config[out'.name].disk) \notin files'
                /\ Norm(vm_dir_of(out'.name)) \notin files') ]_vars

C3_Witness ==
    /\ out.op = "delete" /\ out.result = "ok" /\ nops = 2
    /\ \E r \in out.old : r.memory = S("2G") /\ Norm(r.disk) \notin files
    /\ ~Defined(config, out.name)
    /\ Cardinality(DOMAIN config) = 2
    /\ Count(out.events, "rmfile") = 1 /\ Count(out.events, "rmdir") = 1

\* C4: Start of a name that is not in the store reports NotFound and launches
\* nothing: the live processes, the map and the document stay as they were.
C4_StartNotFoundLaunchesNothing ==
    [][ (Step("start") /\ ~Defined(config, out'.name)) =>
          /\ out'.result = "NotFound"
          /\ out'.launched = <<>>
          /\ procs' = procs
          /\ config' = config
          /\ persisted' = persisted ]_vars

C4_Witness ==
    /\ out.op = "start" /\ out.result = "NotFound"
    /\ config # EmptyStore /\ procs # NoProcs

\* C5: after a completed Create, get(name) returns a record with the supplied
\* name, memory and threads, cpu "host", the supplied ISO after path expansion
\* and the disk path <vmFolder>/<name>/<name>.qcow2.
C5_CreateStoresSuppliedFields ==
    (out.op = "create" /\ out.result = "ok") =>
        /\ Defined(config, out.name)
        /\ config[out.name].name = out.name
        /\ config[out.name].memory = Supplied(out.args.memory, S("4G"))
        /\ config[out.name].threads = Supplied(out.args.cpu_threads, S("1"))
        /\ config[out.name].cpu = S("host")
        /\ config[out.name].iso = expand_path(out.args.iso)
        /\ config[out.name].disk =
              vm_folder \o S("/") \o out.name \o S("/") \o out.name \o S(".qcow2")

C5_Witness ==
    /\ out.op = "create" /\ out.result = "ok" /\ out.name = <<"a", "b">>
    /\ out.args.iso = <<"~", "/x.iso">> /\ home = S("/home/u")
    /\ config[out.name].iso = <<"/home/u", "/x.iso">>
    /\ config[out.name].disk =
          <<"/home/u", "/", "vms", "/", "a", "b", "/", "a", "b", ".qcow2">>

\* C6: a Create of a name that already has a record raises no error and
\* replaces it: one record for the name, every field from this call, in the map
\* and in the document, and the records of other names unchanged.
C6_CreateLastWriteWins ==
    [][ Step("create") =>
          /\ (broken \cap {"mkdir", "save"} = {} => out'.result = "ok")
          /\ out'.result = "ok" =>
                /\ DOMAIN config' = (DOMAIN config) \cup {out'.name}
                /\ \A k \in (DOMAIN config) \ {out'.name} : config'[k] = config[k]
                /\ config'[out'.name].memory = Supplied(out'.args.memory, S("4G"))
                /\ config'[out'.name].threads = Supplied(out'.args.cpu_threads, S("1"))
                /\ config'[out'.name].iso = expand_path(out'.args.iso)
                /\ config'[out'.name].name = out'.name
                /\ config'[out'.name].cpu = S("host")
                /\ config'[out'.name].disk = disk_path_of(out'.name)
                /\ Cardinality(RowsFor(persisted', out'.name)) = 1
                /\ Deserialize(persisted') = config' ]_vars

C6_Witness ==
    /\ out.op = "create" /\ out.result = "ok" /\ nops = 2
    /\ \E r \in out.old : /\ r.memory = S("2G")
                          /\ config[out.name].memory = S("4G")
                          /\ r.iso # config[out.name].iso
    /\ Cardinality(DOMAIN config) = 3

\* C7: neither the map nor the document ever holds a record whose key is the
\* empty name.
C7_NoEmptyName ==
    ~Defined(config, EmptyStr) /\ RowsFor(persisted, EmptyStr) = {}

\* C8: while the session is idle after a completed Create or Delete, the
\* document equals the map, and that call saved exactly once, after its
\* insert or remove.
C8_PersistedAfterEveryChange ==
    (running /\ out.op \in {"create", "delete"} /\ out.result = "ok") =>
        /\ Deserialize(persisted) = config
        /\ persisted = Serialize(config)
        /\ Count(out.events, "save") = 1
        /\ Count(out.events, "insert") + Count(out.events, "remove") = 1
        /\ Precedes(out.events, "insert", "save")
        /\ Precedes(out.events, "remove", "save")

C8_Witness ==
    /\ running /\ nops = 2 /\ out.op = "delete" /\ out.result = "ok"
    /\ config # EmptyStore
    /\ \E r \in out.old : r.memory = S("2G")

\* C9: a Create given a non-empty ISO saves the record before it attempts the
\* launch, and the record stays in the map and in the document whether the
\* spawn succeeds or fails; when the save fails no launch is attempted.
C9_SavedBeforeLaunch ==
    (out.op = "create" /\ out.args.iso # EmptyStr) =>
        /\ out.result = "ok" =>
              /\ Count(out.events, "spawn") + Count(out.events, "spawn_err") = 1
              /\ Precedes(out.events, "save", "spawn")
              /\ Precedes(out.events, "save", "spawn_err")
              /\ Defined(config, out.name)
              /\ Cardinality(RowsFor(persisted, out.name)) = 1
              /\ Deserialize(persisted)[out.name] = config[out.name]
              /\ config[out.name].iso = expand_path(out.args.iso)
        /\ out.result = "panic" =>
              /\ out.launched = <<>>
              /\ Count(out.events, "spawn") + Count(out.events, "spawn_err") = 0

C9_Witness ==
    /\ out.op = "create" /\ out.result = "ok" /\ out.args.iso # EmptyStr
    /\ Count(out.events, "spawn_err") = 1
    /\ Defined(config, out.name)
    /\ Deserialize(persisted)[out.name] = config[out.name]

\* C10: a completed Create attempts a launch exactly when the record's ISO is
\* non-empty: none, and no new process, with an empty ISO; with a non-empty ISO
\* one launch whose command line carries the boot medium and the boot-order
\* override and carries the display-suppression flag exactly when the mode
\* chosen is headless.
C10_LaunchIffIso ==
    [][ (Step("create") /\ out'.result = "ok") =>
          IF config'[out'.name].iso = EmptyStr
          THEN out'.launched = <<>> /\ procs' = procs
          ELSE /\ Len(out'.launched) = 1
               /\ Contains(out'.launched[1],
                           S(" -cdrom ") \o config'[out'.name].iso
                             \o S(" -boot order=d"))
               /\ Contains(out'.launched[1], pattern_of(out'.name))
               /\ Contains(out'.launched[1], S(" -display none"))
                     <=> out'.mode = "headless"
               /\ IF "spawn" \in broken THEN procs' = procs
                  ELSE /\ Cardinality(DOMAIN procs') = Cardinality(DOMAIN procs) + 1
                       /\ \A p \in DOMAIN procs : procs'[p] = procs[p]
                       /\ \A p \in (DOMAIN procs') \ (DOMAIN procs) :
                             procs'[p] = [vm |-> out'.name, cmd |-> out'.launched[1]] ]_vars

C10_Witness ==
    /\ out.op = "create" /\ out.result = "ok" /\ out.mode = "headless"
    /\ Len(out.launched) = 1
    /\ Contains(out.launched[1], S(" -display none"))
    /\ \E p \in DOMAIN procs : procs[p].cmd = out.launched[1]


\* C11: for every store the session reaches, saving it and loading the result
\* gives a store with the same names and the same six field values per record.
C11_SaveLoadRoundTrip ==
    LET back == load_config(save_config(config), TRUE) IN
    /\ DOMAIN back = DOMAIN config
    /\ \A k \in DOMAIN config :
          /\ back[k].name = config[k].name
          /\ back[k].memory = config[k].memory
          /\ back[k].cpu = config[k].cpu
          /\ back[k].threads = config[k].threads
          /\ back[k].disk = config[k].disk
          /\ back[k].iso = config[k].iso

C11_Witness ==
    /\ nops = 2 /\ out.op = "delete" /\ out.result = "ok"
    /\ Cardinality(DOMAIN config) = 2
    /\ \E k \in DOMAIN config : config[k].iso # EmptyStr /\ config[k].threads = S("1")
    /\ \E k \in DOMAIN config : config[k].iso = EmptyStr
    /\ load_config(persisted, TRUE) = config


\* C12: Delete of a defined VM calls Stop exactly when a live process matches
\* the name; when none matches it calls no Stop and sends no termination
\* request.
C12_StopIffLive ==
    [][ (Step("delete") /\ Defined(config, out'.name)) =>
          /\ Count(out'.events, "stop_vm") = 1
                <=> Matching(procs, pattern_of(out'.name)) # {}
          /\ Matching(procs, pattern_of(out'.name)) = {} =>
                /\ out'.signalled = {}
                /\ Count(out'.events, "pkill") = 0
                /\ procs' = procs ]_vars


\* The stop_vm fallback: pids enumerated with pgrep and killed one by one.
FallbackTaken(events) ==
    Count(events, "pgrep") + Count(events, "pgrep_err")
      + Count(events, "kill") + Count(events, "kill_err") > 0

\* C13: Stop of a defined name issues the pattern-based request first, takes
\* the enumerate-and-kill fallback only when that request could not be invoked,
\* reports success only when the request was invoked without error, and never
\* does both.
C13_StopPoliteThenFallback ==
    (out.op = "stop" /\ out.result # "NotFound") =>
        /\ Len(out.events) >= 2
        /\ out.events[2] \in {"pkill", "pkill_err"}
        /\ Count(out.events, "pkill") + Count(out.events, "pkill_err") = 1
        /\ FallbackTaken(out.events) <=> "pkill" \in broken
        /\ Count(out.events, "stopped") = 1 <=> "pkill" \notin broken
        /\ out.result = "ok" <=> Count(out.events, "stopped") = 1
        /\ ~(FallbackTaken(out.events) /\ Count(out.events, "stopped") > 0)

C13_Witness ==
    /\ out.op = "stop" /\ out.result = "fallback"
    /\ Count(out.events, "kill") = 1 /\ Count(out.events, "stopped") = 0
    /\ out.signalled # {}


\* C14: Stop, Start and List leave the in-memory store and the persisted
\* document unchanged, whatever name is typed and whatever they find; the
\* document changes only in Create and Delete, and the store only there or when
\* a new session loads it.
C14_OnlyCreateDeleteChangeStore ==
    [][ /\ (Step("stop") \/ Step("start") \/ Step("list"))
              => (config' = config /\ persisted' = persisted)
        /\ persisted' # persisted => out'.op \in {"create", "delete"}
        /\ config' # config => out'.op \in {"create", "delete", "main"} ]_vars

C14_Witness ==
    /\ out.op = "stop" /\ out.result = "ok" /\ out.signalled # {}
    /\ Defined(config, out.name)
    /\ RowsFor(persisted, out.name) # {}
    /\ \A p \in DOMAIN procs : procs[p].vm # out.name


\* C15: when the disk image cannot be created, Create still inserts the record
\* and saves it (given that the document itself can be written), with the
\* fields it would have had if the image had been created.
C15_ImageFailureDoesNotAbortCreate ==
    (out.op = "create" /\ Count(out.events, "img_err") = 1 /\ "save" \notin broken) =>
        /\ out.result = "ok"
        /\ Count(out.events, "insert") = 1 /\ Count(out.events, "save") = 1
        /\ Defined(config, out.name)
        /\ config[out.name] = VMOf(out.name, out.args)
        /\ persisted = Serialize(config)
        /\ Defined(Deserialize(persisted), out.name)
        /\ Deserialize(persisted)[out.name] = VMOf(out.name, out.args)

C15_Witness ==
    /\ out.op = "create" /\ out.result = "ok"
    /\ Count(out.events, "img_err") = 1
    /\ out.old = {}
    /\ Norm(disk_path_of(out.name)) \notin files
    /\ RowsFor(persisted, out.name) # {}


\* C16: in Delete of a defined VM, a disk file or a VM folder that cannot be
\* removed does not keep the record: Delete completes, and the record is then
\* absent from the in-memory store and from the persisted document (given that
\* the VM folder root and the document itself can be written).
C16_RemovalFailureDoesNotBlockDelete ==
    ( /\ out.op = "delete" /\ out.result # "NotFound"
      /\ Count(out.events, "rmfile_err") + Count(out.events, "rmdir_err") > 0
      /\ broken \cap {"mkdir", "save"} = {} ) =>
        /\ out.result = "ok"
        /\ Count(out.events, "remove") = 1 /\ Count(out.events, "save") = 1
        /\ ~Defined(config, out.name)
        /\ RowsFor(persisted, out.name) = {}
        /\ ~Defined(Deserialize(persisted), out.name)
        /\ persisted = Serialize(config)

C16_Witness ==
    /\ out.op = "delete" /\ out.result = "ok"
    /\ Count(out.events, "rmfile_err") = 1 /\ Count(out.events, "rmdir_err") = 1
    /\ \E vm \in out.old : Norm(expand_path(vm.disk)) \in files
    /\ Norm(vm_dir_of(out.name)) \in files
    /\ ~Defined(config, out.name) /\ RowsFor(persisted, out.name) = {}


\* The live processes launched for the VM called n.
LiveFor(P, n) == {p \in DOMAIN P : P[p].vm = n}

\* C17: Start of a defined name launches one more process for that name
\* whenever the shell can be spawned, whether or not a process for the name is
\* already alive, and leaves every process that was alive as it was.
C17_StartAlwaysLaunches ==
    [][ (Step("start") /\ Defined(config, out'.name) /\ "spawn" \notin broken) =>
          /\ \A p \in DOMAIN procs : p \in DOMAIN procs' /\ procs'[p] = procs[p]
          /\ Cardinality(DOMAIN procs') = Cardinality(DOMAIN procs) + 1
          /\ Cardinality(LiveFor(procs', out'.name))
               = Cardinality(LiveFor(procs, out'.name)) + 1 ]_vars

C17_Witness ==
    /\ out.op = "start" /\ out.result = "ok"
    /\ Count(out.events, "spawn") = 1
    /\ Cardinality(LiveFor(procs, out.name)) >= 2


\* The termination requests of stop_vm reach the processes they match.
StopWorks ==
    \/ "pkill" \notin broken
    \/ broken \cap {"stop_pgrep", "kill"} = {}

\* C18: Stop(n) of a defined name terminates exactly the live processes whose
\* command line contains the pattern built from n, which are the processes of
\* every VM whose name n is a prefix of: stopping "a" also terminates the
\* process of "ab", and stopping "ab" leaves the process of "a" alive.
C18_StopMatchesByPrefix ==
    [][ (Step("stop") /\ Defined(config, out'.name) /\ StopWorks) =>
          /\ \A p \in DOMAIN procs :
                /\ p \notin DOMAIN procs' <=> Contains(procs[p].cmd, pattern_of(out'.name))
                /\ p \notin DOMAIN procs' <=> IsPrefix(out'.name, procs[p].vm)
          /\ DOMAIN procs' \subseteq DOMAIN procs
          /\ out'.signalled = {[pid |-> p, vm |-> procs[p].vm] :
                                 p \in (DOMAIN procs) \ (DOMAIN procs')} ]_vars

C18_Witness ==
    /\ out.op = "stop" /\ out.name = <<"a">> /\ out.result = "ok"
    /\ Defined(config, <<"a", "b">>)
    /\ \E s \in out.signalled : s.vm = <<"a", "b">>
    /\ \E s \in out.signalled : s.vm = <<"a">>
    /\ LiveFor(procs, <<"a", "b">>) = {}


\* C20: Delete(name) signals only processes matching the name being deleted:
\* whatever is typed at the prompt of the nested stop_vm, no process of another
\* defined VM whose name does not contain `name` is signalled.
C20_DeleteSignalsOnlyItsOwn ==
    (out.op = "delete" /\ out.result # "NotFound") =>
        \A s \in out.signalled :
            (s.vm # out.name /\ Defined(config, s.vm)) => Contains(s.vm, out.name)


\* C19: two sessions on one document, no locking.  A session keeps the map it
\* loaded at its start: it does not see what the other one saved.  Every save
\* of Create or Delete writes the saving session's whole map, which differs
\* from what that session had before only at the name operated on; so the
\* document then equals that session's map, and a record only the other
\* session has is absent from it.
C19_LastWriterWins ==
    [][ /\ ((Step("create") \/ Step("delete")) /\ out'.result = "ok") =>
              /\ persisted' = Serialize(config')
              /\ \A k \in (DOMAIN config') \ {out'.name} :
                    k \in DOMAIN config /\ config'[k] = config[k]
              /\ (DOMAIN config) \ {out'.name} \subseteq DOMAIN config'
              /\ other' = other
              /\ \A k \in (DOMAIN other.config) \ (DOMAIN config') :
                    RowsFor(persisted', k) = {}
        /\ cur' # cur =>
              /\ config' = other.config
              /\ other'.config = config
              /\ persisted' = persisted ]_vars

\* Lost update: both sessions started on the empty document, A created and
\* saved a record, then B created another one and saved.
C19_Witness ==
    /\ nops = 2 /\ cur = "B"
    /\ out.op = "create" /\ out.result = "ok"
    /\ DOMAIN config = {out.name}
    /\ persisted = Serialize(config)
    /\ \E k \in DOMAIN other.config :
          /\ k # out.name
          /\ RowsFor(persisted, k) = {}
          /\ RowsFor(Serialize(other.config), k) # {}

====
